---------------------------- MODULE Spec2Model ----------------------------
(***************************************************************************)
(* A model of the browser facade of parser-template:                       *)
(*   base/selenium/interface.py   BaseBrowserInterface, BrowserInterface   *)
(*   base/selenium/drivers.py     _parse_options, create_driver            *)
(*   base/selenium/waits.py       wait_until                               *)
(*   base/selenium/expected_conditions.py  _check_if_has_css_declaration   *)
(*                                                                         *)
(* A Python str is a sequence of one-character strings.  An argument that  *)
(* may be None is None (the empty tuple) or Some(v) (the 1-tuple of v).    *)
(***************************************************************************)
EXTENDS Integers, Sequences, FiniteSets, TLC

VARIABLES
    inp,        \* the arguments of the function under study (its own specification)
    out,        \* its progress and result, Pending before it ran
    wd,         \* the webdriver session the interface wraps
    ctx,        \* the `with interface:` block of main(): where it is, how it ended
    calls,      \* the webdriver calls the last wrapper operation made, in order
    last        \* the last wrapper operation: its name, arguments, outcome, result

pureVars == <<inp, out>>
sessVars == <<wd, ctx, calls, last>>
vars == <<inp, out, wd, ctx, calls, last>>

None == <<>>
Some(v) == <<v>>
Pending == [op |-> "none", outcome |-> "pending"]

(***************************************************************************)
(* Strings.                                                                *)
(***************************************************************************)
LowerChars == <<"a","b","c","d","e","f","g","h","i","j","k","l","m",
                "n","o","p","q","r","s","t","u","v","w","x","y","z">>
UpperChars == <<"A","B","C","D","E","F","G","H","I","J","K","L","M",
                "N","O","P","Q","R","S","T","U","V","W","X","Y","Z">>

\* str.upper() / str.lower() on one ASCII character
CharUpper(c) ==
    IF \E i \in 1..26 : LowerChars[i] = c
    THEN UpperChars[CHOOSE i \in 1..26 : LowerChars[i] = c]
    ELSE c

CharLower(c) ==
    IF \E i \in 1..26 : UpperChars[i] = c
    THEN LowerChars[CHOOSE i \in 1..26 : UpperChars[i] = c]
    ELSE c

StrUpper(s) == [i \in 1..Len(s) |-> CharUpper(s[i])]
StrLower(s) == [i \in 1..Len(s) |-> CharLower(s[i])]

\* str.endswith(suffix)
EndsWith(s, suffix) ==
    /\ Len(s) >= Len(suffix)
    /\ SubSeq(s, Len(s) - Len(suffix) + 1, Len(s)) = suffix

\* every str over the alphabet A of length at most n
StringsUpTo(A, n) == UNION {[1..k -> A] : k \in 0..n}

(***************************************************************************)
(* Locator strategies: interface.py, _By and _parse_str_to_by_enum.        *)
(***************************************************************************)
\* get_args(_By): the eight literals, in order
_By == <<
    <<"i","d">>,
    <<"n","a","m","e">>,
    <<"x","p","a","t","h">>,
    <<"l","i","n","k","_","t","e","x","t">>,
    <<"p","a","r","t","i","a","l","_","l","i","n","k","_","t","e","x","t">>,
    <<"t","a","g","_","n","a","m","e">>,
    <<"c","l","a","s","s","_","n","a","m","e">>,
    <<"c","s","s","_","s","e","l","e","c","t","o","r">> >>

\* selenium's By: the class attributes (name, value) the wrapper reads
By == {
    [name |-> <<"I","D">>, value |-> <<"i","d">>],
    [name |-> <<"X","P","A","T","H">>, value |-> <<"x","p","a","t","h">>],
    [name |-> <<"L","I","N","K","_","T","E","X","T">>,
     value |-> <<"l","i","n","k"," ","t","e","x","t">>],
    [name |-> <<"P","A","R","T","I","A","L","_","L","I","N","K","_","T","E","X","T">>,
     value |-> <<"p","a","r","t","i","a","l"," ","l","i","n","k"," ","t","e","x","t">>],
    [name |-> <<"N","A","M","E">>, value |-> <<"n","a","m","e">>],
    [name |-> <<"T","A","G","_","N","A","M","E">>,
     value |-> <<"t","a","g"," ","n","a","m","e">>],
    [name |-> <<"C","L","A","S","S","_","N","A","M","E">>,
     value |-> <<"c","l","a","s","s"," ","n","a","m","e">>],
    [name |-> <<"C","S","S","_","S","E","L","E","C","T","O","R">>,
     value |-> <<"c","s","s"," ","s","e","l","e","c","t","o","r">>] }

\* getattr(By, attr)
getattr_By(attr) ==
    IF \E m \in By : m.name = attr
    THEN [outcome |-> "ok", value |-> (CHOOSE m \in By : m.name = attr).value]
    ELSE [outcome |-> "AttributeError"]

In_By(by) == \E i \in 1..Len(_By) : _By[i] = by

\* a plausible slip: the membership test dropped
_parse_str_to_by_enum_unchecked(by) == getattr_By(StrUpper(by))

\* _parse_str_to_by_enum(by)
_parse_str_to_by_enum(by) ==
    IF ~In_By(by)
    THEN [outcome |-> "ValueError"]
    ELSE getattr_By(StrUpper(by))

(***************************************************************************)
(* The wrapped webdriver.  Its state is what the wrapper's callers can     *)
(* observe through the wrapper: whether the session is alive, the history  *)
(* of pages and the place in it, whether the page is as first loaded or    *)
(* was reloaded since (rev), and the session's implicit-wait timeout.  A call on the driver either succeeds  *)
(* or raises; the environment decides (env.fail), and a session that was   *)
(* quit raises on every call.                                              *)
(***************************************************************************)
MaxHist == 2        \* pages kept in the history
MaxTimeout == 1     \* timeouts range over 0..MaxTimeout
MaxPolls == 2       \* condition evaluations that fit into one explicit wait

Urls == {"u1", "u2"}
Values == {"v1", "v2"}
Elements == {"e1", "e2"}
Timeouts == 0..MaxTimeout

WdInit == [alive |-> TRUE, hist |-> <<"blank">>, pos |-> 1, rev |-> 0, implicit |-> 0]

CurrentPage(w) == [url |-> w.hist[w.pos], rev |-> w.rev]

\* the session after a call of `method` that succeeded
WdEffect(w, method, args) ==
    CASE method = "get" ->
            [w EXCEPT !.hist = Append(SubSeq(w.hist, 1, w.pos), args[1]),
                      !.pos = w.pos + 1, !.rev = 0]
      [] method = "back" -> [w EXCEPT !.pos = IF w.pos > 1 THEN w.pos - 1 ELSE 1]
      [] method = "forward" ->
            [w EXCEPT !.pos = IF w.pos < Len(w.hist) THEN w.pos + 1 ELSE w.pos]
      [] method = "refresh" -> [w EXCEPT !.rev = 1 - w.rev]
      [] method \in {"implicitly_wait", "timeouts"} -> [w EXCEPT !.implicit = args[1]]
      [] method = "quit" -> [w EXCEPT !.alive = FALSE]
      [] OTHER -> w

\* what a call of `method` that succeeded returns; env.ret is the driver's
\* answer where the page decides it (a lookup, a cookie, a size)
WdValue(w, method, args, env) ==
    CASE method = "title" -> <<"title", CurrentPage(w)>>
      [] method = "current_url" -> <<"url", CurrentPage(w)>>
      [] method = "page_source" -> <<"source", CurrentPage(w)>>
      [] method \in {"find_element", "find_elements", "get_cookie", "get_cookies",
                     "get_window_size", "get_screenshot_as_file",
                     "get_screenshot_as_png"} -> env.ret
      [] OTHER -> None

Call(method, args) == <<method, args>>

\* a plausible slip: one retry after a failure
WdCallRetry(w, method, args, env) ==
    IF (~w.alive) \/ env.fail
    THEN [wd |-> w, calls |-> <<Call(method, args), Call(method, args)>>,
          outcome |-> "WebDriverException", result |-> None]
    ELSE [wd |-> WdEffect(w, method, args), calls |-> <<Call(method, args)>>,
          outcome |-> "ok", result |-> WdValue(w, method, args, env)]

\* self.webdriver.<method>(*args): one call, its effect, its result or its error
WdCall(w, method, args, env) ==
    IF (~w.alive) \/ env.fail
    THEN [wd |-> w, calls |-> <<Call(method, args)>>,
          outcome |-> "WebDriverException", result |-> None]
    ELSE [wd |-> WdEffect(w, method, args), calls |-> <<Call(method, args)>>,
          outcome |-> "ok", result |-> WdValue(w, method, args, env)]

(***************************************************************************)
(* BaseBrowserInterface: the pass-through operations.  Each handler is an  *)
(* operator from the session, the arguments and the environment's choices  *)
(* to [wd, calls, outcome, result].                                        *)
(***************************************************************************)
\* a plausible slip: r2 runs although r1 raised, the error of r1 swallowed
ThenRegardless(r1, r2) ==
    [wd |-> r2.wd, calls |-> r1.calls \o r2.calls,
     outcome |-> r2.outcome, result |-> r2.result]

\* r1, then r2 (computed from r1's session) unless r1 raised
Then(r1, r2) ==
    IF r1.outcome # "ok" THEN r1
    ELSE [wd |-> r2.wd, calls |-> r1.calls \o r2.calls,
          outcome |-> r2.outcome, result |-> r2.result]

get(w, url, env) == WdCall(w, "get", <<url>>, env)
back(w, env) == WdCall(w, "back", <<>>, env)
forward(w, env) == WdCall(w, "forward", <<>>, env)
refresh(w, env) == WdCall(w, "refresh", <<>>, env)
title(w, env) == WdCall(w, "title", <<>>, env)
current_url(w, env) == WdCall(w, "current_url", <<>>, env)

\* a plausible slip: the page source read once, when the history began, and kept
page_source_cached(w, env) ==
    [wd |-> w, calls |-> <<>>, outcome |-> "ok",
     result |-> <<"source", [url |-> w.hist[1], rev |-> 0]>>]

page_source(w, env) == WdCall(w, "page_source", <<>>, env)
quit(w, env) == WdCall(w, "quit", <<>>, env)
implicitly_wait(w, time_to_wait_in_s, env) ==
    WdCall(w, "implicitly_wait", <<time_to_wait_in_s>>, env)
find_element(w, by, value, env) == WdCall(w, "find_element", <<by, value>>, env)
find_elements(w, by, value, env) == WdCall(w, "find_elements", <<by, value>>, env)

\* the cookie, window and screenshot-as-bytes operations: the same method of
\* the webdriver, with the same arguments
Delegated == {
    [method |-> "get_cookies", args |-> <<>>],
    [method |-> "get_cookie", args |-> <<"sid">>],
    [method |-> "delete_cookie", args |-> <<"sid">>],
    [method |-> "delete_all_cookies", args |-> <<>>],
    [method |-> "add_cookie", args |-> <<"sid">>],
    [method |-> "maximize_window", args |-> <<>>],
    [method |-> "fullscreen_window", args |-> <<>>],
    [method |-> "minimize_window", args |-> <<>>],
    [method |-> "set_window_size", args |-> <<"w", "h", "current">>],
    [method |-> "get_window_size", args |-> <<"current">>],
    [method |-> "get_screenshot_as_png", args |-> <<>>] }

delegate(w, d, env) == WdCall(w, d.method, d.args, env)

Png == <<".", "p", "n", "g">>

\* a plausible slip: the suffix test without lower()
_normalize_screenshot_filename_exact(filename) ==
    IF ~EndsWith(filename, Png) THEN filename \o Png ELSE filename

\* BaseBrowserInterface._normalize_screenshot_filename
_normalize_screenshot_filename(filename) ==
    IF ~EndsWith(StrLower(filename), Png) THEN filename \o Png ELSE filename

get_screenshot_as_file(w, filename, env) ==
    WdCall(w, "get_screenshot_as_file", <<_normalize_screenshot_filename(filename)>>, env)

save_screenshot(w, filename, env) ==
    get_screenshot_as_file(w, _normalize_screenshot_filename(filename), env)

\* BaseBrowserInterface.__enter__: the wrapped webdriver, not the interface
__enter__ == "self.webdriver"

\* a plausible slip: __exit__ that leaves the session open
__exit__no_quit(w, env) == [wd |-> w, calls |-> <<>>, outcome |-> "ok", result |-> None]

\* BaseBrowserInterface.__exit__: quit the driver, return None
__exit__(w, env) == [WdCall(w, "quit", <<>>, env) EXCEPT !.result = None]

\* the `timeouts` setter: every timeout of the session at once
set_timeouts(w, timeouts, env) == WdCall(w, "timeouts", <<timeouts>>, env)

(***************************************************************************)
(* waits.py and BrowserInterface.                                          *)
(***************************************************************************)
\* what one evaluation of a condition against the driver can do: return a
\* truthy or a falsy value, raise an exception the wait ignores, raise another
EvalOutcomes == {"truthy", "falsy", "ignored", "error"}

\* a plausible slip: any value the condition returns ends the wait
AfterEvaluationAnyValue(e) ==
    CASE e \in {"truthy", "falsy"} -> "return"
      [] e = "error" -> "raise"
      [] OTHER -> "continue"

\* the body of the loop of WebDriverWait.until: `if value: return value`, an
\* ignored exception is swallowed, any other propagates
AfterEvaluation(e) ==
    CASE e = "truthy" -> "return"
      [] e = "error" -> "raise"
      [] OTHER -> "continue"

\* WebDriverWait.until from evaluation i on, the timeout elapsing after the
\* last evaluation of evs
RECURSIVE until(_, _)
until(evs, i) ==
    IF AfterEvaluation(evs[i]) = "return" THEN [outcome |-> "ok", polls |-> i]
    ELSE IF AfterEvaluation(evs[i]) = "raise" THEN [outcome |-> "ConditionError", polls |-> i]
    ELSE IF i = Len(evs) THEN [outcome |-> "TimeoutException", polls |-> i]
    ELSE until(evs, i + 1)

\* wait_until(driver, condition, timeout=...)
wait_until(w, condition, timeout, env) ==
    LET u == until(env.evs, 1)
    IN  [wd |-> w,
         calls |-> [i \in 1..u.polls |-> Call("condition", <<condition, timeout>>)],
         outcome |-> u.outcome, result |-> None]

\* a plausible slip: the timeout tested for truth, so that 0 counts as absent
WaitStepTruthy(w, timeout_in_s, condition, env) ==
    IF (timeout_in_s # None /\ timeout_in_s[1] # 0) /\ condition = None
    THEN WdCall(w, "implicitly_wait", <<timeout_in_s[1]>>, [env EXCEPT !.fail = env.wfail])
    ELSE IF (timeout_in_s # None /\ timeout_in_s[1] # 0) /\ condition # None
    THEN wait_until(w, condition[1], timeout_in_s[1], env)
    ELSE [wd |-> w, calls |-> <<>>, outcome |-> "ok", result |-> None]

\* the waiting step of find_element_by / find_elements_by
WaitStep(w, timeout_in_s, condition, env) ==
    IF timeout_in_s # None /\ condition = None
    THEN WdCall(w, "implicitly_wait", <<timeout_in_s[1]>>, [env EXCEPT !.fail = env.wfail])
    ELSE IF timeout_in_s # None /\ condition # None
    THEN wait_until(w, condition[1], timeout_in_s[1], env)
    ELSE [wd |-> w, calls |-> <<>>, outcome |-> "ok", result |-> None]

\* the lookup: the By value is parsed before the webdriver is called
Lookup(w, method, by, value, env) ==
    LET p == _parse_str_to_by_enum(by)
    IN  IF p.outcome # "ok"
        THEN [wd |-> w, calls |-> <<>>, outcome |-> p.outcome, result |-> None]
        ELSE WdCall(w, method, <<p.value, value>>, env)

\* a plausible slip: the previous implicit-wait timeout put back after the lookup
find_element_by_restoring(w, by, value, timeout_in_s, condition, env) ==
    LET r1 == WaitStep(w, timeout_in_s, condition, env)
        r == Then(r1, Lookup(r1.wd, "find_element", by, value, env))
    IN  [r EXCEPT !.wd.implicit = w.implicit]

find_element_by(w, by, value, timeout_in_s, condition, env) ==
    LET r1 == WaitStep(w, timeout_in_s, condition, env)
    IN  Then(r1, Lookup(r1.wd, "find_element", by, value, env))

find_elements_by(w, by, value, timeout_in_s, condition, env) ==
    LET r1 == WaitStep(w, timeout_in_s, condition, env)
    IN  Then(r1, Lookup(r1.wd, "find_elements", by, value, env))

\* BeautifulSoup(markup, "html.parser"): the parse tree of the markup
BeautifulSoup(markup) == <<"soup", markup>>

get_page_as_bs4(w, env) ==
    LET r == page_source(w, env)
    IN  IF r.outcome = "ok" THEN [r EXCEPT !.result = BeautifulSoup(r.result)] ELSE r

\* the value of an element's attribute
AttributeOf(element, name) == <<name, element>>

\* web_element.get_attribute(name): a command to the driver, which may raise
get_attribute(w, element, name, env) ==
    IF (~w.alive) \/ env.afail
    THEN [wd |-> w, calls |-> <<Call("get_attribute", <<element, name>>)>>,
          outcome |-> "WebDriverException", result |-> None]
    ELSE [wd |-> w, calls |-> <<Call("get_attribute", <<element, name>>)>>,
          outcome |-> "ok", result |-> AttributeOf(element, name)]

\* get_attribute on each element of a list, in order, up to the first that raises
RECURSIVE get_attributes(_, _, _, _, _)
get_attributes(w, elements, i, name, env) ==
    IF i > Len(elements)
    THEN [wd |-> w, calls |-> <<>>, outcome |-> "ok", result |-> <<>>]
    ELSE LET r1 == get_attribute(w, elements[i], name, [env EXCEPT !.afail = (env.afail = i)])
             r2 == get_attributes(w, elements, i + 1, name, env)
         IN  IF r1.outcome # "ok" THEN r1
             ELSE [wd |-> r2.wd, calls |-> r1.calls \o r2.calls, outcome |-> r2.outcome,
                   result |-> IF r2.outcome = "ok" THEN <<r1.result>> \o r2.result
                              ELSE r2.result]

\* a plausible slip: the element looked up a second time for its markup
find_bs4_element_by_relookup(w, by, value, timeout_in_s, condition, env) ==
    LET r1 == find_element_by(w, by, value, timeout_in_s, condition, env)
        r2 == Then(r1, Lookup(r1.wd, "find_element", by, value, env))
        r3 == Then(r2, get_attribute(r2.wd, r2.result, "outerHTML",
                                     [env EXCEPT !.afail = (env.afail = 1)]))
    IN  IF r3.outcome = "ok" THEN [r3 EXCEPT !.result = BeautifulSoup(r3.result)] ELSE r3

find_bs4_element_by(w, by, value, timeout_in_s, condition, env) ==
    LET r1 == find_element_by(w, by, value, timeout_in_s, condition, env)
        r2 == Then(r1, get_attribute(r1.wd, r1.result, "outerHTML",
                                     [env EXCEPT !.afail = (env.afail = 1)]))
    IN  IF r2.outcome = "ok" THEN [r2 EXCEPT !.result = BeautifulSoup(r2.result)] ELSE r2

find_bs4_elements_by(w, by, value, timeout_in_s, condition, env) ==
    LET r1 == find_elements_by(w, by, value, timeout_in_s, condition, env)
        r2 == Then(r1, get_attributes(r1.wd, r1.result, 1, "outerHTML", env))
    IN  IF r2.outcome = "ok"
        THEN [r2 EXCEPT !.result = [i \in 1..Len(r2.result) |-> BeautifulSoup(r2.result[i])]]
        ELSE r2

(***************************************************************************)
(* The session: a BrowserInterface over one webdriver, used inside the     *)
(* `with interface:` block of main().                                      *)
(***************************************************************************)
\* what the driver may answer
Rets(method) ==
    CASE method = "find_element" -> Elements
      [] method = "find_elements" -> {<<>>, <<"e1">>, <<"e2", "e1">>}
      [] OTHER -> {"r"}

\* the call raises, or it succeeds with one of the answers
Envs(method) ==
    {[fail |-> TRUE, ret |-> CHOOSE r \in Rets(method) : TRUE]}
        \cup {[fail |-> FALSE, ret |-> r] : r \in Rets(method)}

\* the evaluations of one explicit wait: falsy ones, then the one that decides
\* (a truthy value, an error, or the last falsy one before the timeout)
EvalScripts ==
    {[i \in 1..n |-> IF i < n THEN "falsy" ELSE e] :
        n \in 1..MaxPolls, e \in EvalOutcomes \ {"ignored"}}

\* the environment of a lookup with a waiting step: only what the step reads
LookupEnvs(method, t, c) ==
    {[fail |-> e.fail, ret |-> e.ret, wfail |-> wf, evs |-> evs] :
        e \in Envs(method),
        wf \in IF t # None /\ c = None THEN BOOLEAN ELSE {FALSE},
        evs \in IF t # None /\ c # None THEN EvalScripts ELSE {<<"truthy">>}}

WaitEnvs == [evs : EvalScripts]

\* the environment of a lookup followed by get_attribute calls: afail is the
\* position of the element whose get_attribute raises, 0 when none does
Bs4Envs(method, t, c) ==
    {[fail |-> e.fail, ret |-> e.ret, wfail |-> e.wfail, evs |-> e.evs, afail |-> 0] :
        e \in LookupEnvs(method, t, c)}
        \cup {[fail |-> FALSE, ret |-> e.ret, wfail |-> FALSE, evs |-> <<"truthy">>,
                afail |-> 1] : e \in Envs(method)}

\* the locator names, timeouts, conditions and filenames the session is given
SessBys == {_By[8], <<"I", "D">>}
By_CSS_SELECTOR == <<"c", "s", "s", " ", "s", "e", "l", "e", "c", "t", "o", "r">>
SessByValues == {<<"i", "d">>, By_CSS_SELECTOR}
OptTimeouts == {None} \cup {Some(t) : t \in Timeouts}
OptConditions == {None, Some("cond")}
SessFilenames == {<<"a">>, <<"a">> \o Png, <<"a", ".", "P", "N", "G">>}

CtxInit == [pc |-> "out", exitQuits |-> 0, outcome |-> "none"]
LastInit == [op |-> "none", args |-> <<>>, outcome |-> "ok", result |-> None]
Idle == last.op = "none"

Init ==
    /\ inp = None
    /\ out = Pending
    /\ wd = WdInit
    /\ ctx = CtxInit
    /\ calls = <<>>
    /\ last = LastInit

\* one wrapper operation, called as a statement of the block's body when the
\* body holds no unread result; an error it raises ends the body
Op(op, args, r) ==
    /\ ctx.pc = "body"
    /\ Idle
    /\ wd' = r.wd
    /\ calls' = r.calls
    /\ last' = [op |-> op, args |-> args, outcome |-> r.outcome, result |-> r.result]
    /\ ctx' = IF r.outcome # "ok" THEN [ctx EXCEPT !.pc = "raised"] ELSE ctx
    /\ UNCHANGED pureVars

Get ==
    /\ wd.pos < MaxHist
    /\ \E url \in Urls, env \in Envs("get") : Op("get", <<url>>, get(wd, url, env))

Back == \E env \in Envs("back") : Op("back", <<>>, back(wd, env))

Forward == \E env \in Envs("forward") : Op("forward", <<>>, forward(wd, env))

Refresh == \E env \in Envs("refresh") : Op("refresh", <<>>, refresh(wd, env))

Title == \E env \in Envs("title") : Op("title", <<>>, title(wd, env))

CurrentUrl ==
    \E env \in Envs("current_url") : Op("current_url", <<>>, current_url(wd, env))

PageSource ==
    \E env \in Envs("page_source") : Op("page_source", <<>>, page_source(wd, env))

GetPageAsBs4 ==
    \E env \in Envs("page_source") : Op("get_page_as_bs4", <<>>, get_page_as_bs4(wd, env))

Quit == \E env \in Envs("quit") : Op("quit", <<>>, quit(wd, env))

ImplicitlyWait ==
    \E t \in Timeouts, env \in Envs("implicitly_wait") :
        Op("implicitly_wait", <<t>>, implicitly_wait(wd, t, env))

SetTimeouts ==
    \E t \in Timeouts, env \in Envs("timeouts") :
        Op("timeouts", <<t>>, set_timeouts(wd, t, env))

FindElement ==
    \E by \in SessByValues, value \in Values, env \in Envs("find_element") :
        Op("find_element", <<by, value>>, find_element(wd, by, value, env))

FindElements ==
    \E by \in SessByValues, value \in Values, env \in Envs("find_elements") :
        Op("find_elements", <<by, value>>, find_elements(wd, by, value, env))

Delegate ==
    \E d \in Delegated : \E env \in Envs(d.method) :
        Op(d.method, d.args, delegate(wd, d, env))

GetScreenshotAsFile ==
    \E f \in SessFilenames, env \in Envs("get_screenshot_as_file") :
        Op("get_screenshot_as_file", <<f>>, get_screenshot_as_file(wd, f, env))

SaveScreenshot ==
    \E f \in SessFilenames, env \in Envs("get_screenshot_as_file") :
        Op("save_screenshot", <<f>>, save_screenshot(wd, f, env))

WaitUntil ==
    \E t \in Timeouts, env \in WaitEnvs :
        Op("wait_until", <<"cond", t>>, wait_until(wd, "cond", t, env))

FindElementBy ==
    \E by \in SessBys, value \in Values, t \in OptTimeouts, c \in OptConditions :
      \E env \in LookupEnvs("find_element", t, c) :
        Op("find_element_by", <<by, value, t, c>>,
           find_element_by(wd, by, value, t, c, env))

FindElementsBy ==
    \E by \in SessBys, value \in Values, t \in OptTimeouts, c \in OptConditions :
      \E env \in LookupEnvs("find_elements", t, c) :
        Op("find_elements_by", <<by, value, t, c>>,
           find_elements_by(wd, by, value, t, c, env))

FindBs4ElementBy ==
    \E by \in SessBys, value \in Values, t \in OptTimeouts, c \in OptConditions :
      \E env \in Bs4Envs("find_element", t, c) :
        Op("find_bs4_element_by", <<by, value, t, c>>,
           find_bs4_element_by(wd, by, value, t, c, env))

FindBs4ElementsBy ==
    \E by \in SessBys, value \in Values, t \in OptTimeouts, c \in OptConditions :
      \E env \in Bs4Envs("find_elements", t, c) :
        Op("find_bs4_elements_by", <<by, value, t, c>>,
           find_bs4_elements_by(wd, by, value, t, c, env))

\* the caller has read the result of the last operation
Return ==
    /\ ctx.pc = "body"
    /\ ~Idle
    /\ last' = LastInit
    /\ calls' = <<>>
    /\ UNCHANGED <<wd, ctx, pureVars>>

\* `with interface:` is entered: __enter__ runs, its result is bound
Enter ==
    /\ ctx.pc = "out"
    /\ Idle
    /\ ctx' = [ctx EXCEPT !.pc = "body"]
    /\ last' = [op |-> "__enter__", args |-> <<>>, outcome |-> "ok", result |-> __enter__]
    /\ calls' = <<>>
    /\ UNCHANGED <<wd, pureVars>>

\* the body runs to its end
BodyReturn ==
    /\ ctx.pc = "body"
    /\ Idle
    /\ ctx' = [ctx EXCEPT !.pc = "returned"]
    /\ UNCHANGED <<wd, calls, last, pureVars>>

\* the block is left: __exit__ runs; the body's error is re-raised unless
\* __exit__ returned a true value, and an error of __exit__ replaces it
ExitBlock ==
    /\ ctx.pc \in {"returned", "raised"}
    /\ \E env \in Envs("quit") :
        LET r == __exit__(wd, env)
            nquit == Cardinality({i \in 1..Len(r.calls) : r.calls[i][1] = "quit"})
        IN  /\ wd' = r.wd
            /\ calls' = r.calls
            /\ last' = [op |-> "__exit__", args |-> <<ctx.pc>>,
                        outcome |-> r.outcome, result |-> r.result]
            /\ ctx' = [pc |-> "done",
                       exitQuits |-> ctx.exitQuits + nquit,
                       outcome |-> IF r.outcome # "ok" THEN "exit_error"
                                   ELSE IF ctx.pc = "raised" /\ r.result = None
                                        THEN "body_error"
                                        ELSE "ok"]
    /\ UNCHANGED pureVars

Next ==
    \/ Get \/ Back \/ Forward \/ Refresh
    \/ Title \/ CurrentUrl \/ PageSource \/ GetPageAsBs4
    \/ Quit \/ ImplicitlyWait \/ SetTimeouts
    \/ FindElement \/ FindElements \/ Delegate
    \/ GetScreenshotAsFile \/ SaveScreenshot
    \/ WaitUntil \/ FindElementBy \/ FindElementsBy
    \/ FindBs4ElementBy \/ FindBs4ElementsBy
    \/ Return \/ Enter \/ BodyReturn \/ ExitBlock

Spec == Init /\ [][Next]_vars

(***************************************************************************)
(* Claims about the session.                                               *)
(***************************************************************************)
CountCalls(methods) == Cardinality({i \in 1..Len(calls) : calls[i][1] \in methods})

\* C1: `with interface:` binds the wrapped webdriver; when the block is left,
\* after a body that returned or raised, __exit__ is the last operation and
\* made exactly one webdriver.quit() call, none was made by __exit__ before,
\* and a body that raised leaves the block with an error.
C1_ContextManagerQuitsOnce ==
    /\ (last.op = "__enter__" => last.result = "self.webdriver")
    /\ (ctx.pc # "done" => ctx.exitQuits = 0 /\ last.op # "__exit__")
    /\ (ctx.pc = "done" =>
            /\ last.op = "__exit__"
            /\ calls = <<Call("quit", <<>>)>>
            /\ ctx.exitQuits = 1
            /\ (last.args = <<"raised">> => ctx.outcome \in {"body_error", "exit_error"})
            /\ (last.args = <<"returned">> /\ last.outcome = "ok" => ctx.outcome = "ok"))

C1_Witness ==
    /\ ctx.pc = "done"
    /\ last.args = <<"raised">>
    /\ ctx.outcome = "body_error"
    /\ ~wd.alive

\* the webdriver method behind each pass-through operation
PassThroughMethod(op) ==
    IF op = "save_screenshot" THEN "get_screenshot_as_file" ELSE op

PassThroughOps ==
    {"get", "find_element", "find_elements", "get_screenshot_as_file",
     "save_screenshot"} \cup {d.method : d \in Delegated}

LookupOps == {"find_element_by", "find_elements_by"}
LookupMethod(op) == IF op = "find_element_by" THEN "find_element" ELSE "find_elements"

\* the waiting step of the last lookup raised: the explicit wait timed out or
\* its condition raised, or implicitly_wait raised
WaitRaised ==
    \/ last.outcome \in {"TimeoutException", "ConditionError"}
    \/ /\ last.outcome = "WebDriverException"
       /\ calls # <<>>
       /\ calls[Len(calls)][1] = "implicitly_wait"

\* C7 as stated: every pass-through operation and every find_element_by /
\* find_elements_by issues exactly one call of its webdriver method.
C7_ExactlyOneCallAlways ==
    /\ (last.op \in PassThroughOps => CountCalls({PassThroughMethod(last.op)}) = 1)
    /\ (last.op \in LookupOps => CountCalls({LookupMethod(last.op)}) = 1)

\* C7, amended: a pass-through operation issues exactly one call of its
\* webdriver method and no other, whether it returns or raises; find_element_by
\* and find_elements_by issue at most one lookup call, as their last call: one
\* when the locator name is supported and the waiting step did not raise, none
\* otherwise; an operation that returned made its call.
C7_NoRetries ==
    /\ (last.op \in PassThroughOps =>
            /\ Len(calls) = 1
            /\ calls[1][1] = PassThroughMethod(last.op))
    /\ (last.op \in LookupOps =>
            LET n == CountCalls({"find_element", "find_elements"})
            IN  /\ n <= 1
                /\ (n = 1 => /\ calls[Len(calls)][1] = LookupMethod(last.op)
                             /\ In_By(last.args[1])
                             /\ ~WaitRaised)
                /\ (n = 0 => /\ last.outcome # "ok"
                             /\ (WaitRaised \/ ~In_By(last.args[1]))))

C7_Witness ==
    /\ last.op = "find_element_by"
    /\ last.outcome = "WebDriverException"
    /\ calls = <<Call("find_element", <<By_CSS_SELECTOR, "v1">>)>>

\* C8: a read of page_source, title or current_url, or get_page_as_bs4, that
\* returned made one call of the webdriver and returned what the driver holds
\* for the page it is on at that moment.
C8_ReadsAreNotCached ==
    /\ (last.op = "page_source" /\ last.outcome = "ok" =>
            /\ last.result = <<"source", [url |-> wd.hist[wd.pos], rev |-> wd.rev]>>
            /\ calls = <<Call("page_source", <<>>)>>)
    /\ (last.op = "title" /\ last.outcome = "ok" =>
            /\ last.result = <<"title", [url |-> wd.hist[wd.pos], rev |-> wd.rev]>>
            /\ calls = <<Call("title", <<>>)>>)
    /\ (last.op = "current_url" /\ last.outcome = "ok" =>
            /\ last.result = <<"url", [url |-> wd.hist[wd.pos], rev |-> wd.rev]>>
            /\ calls = <<Call("current_url", <<>>)>>)
    /\ (last.op = "get_page_as_bs4" /\ last.outcome = "ok" =>
            /\ last.result =
                    <<"soup", <<"source", [url |-> wd.hist[wd.pos], rev |-> wd.rev]>>>>
            /\ calls = <<Call("page_source", <<>>)>>)

\* a page is read after the driver went to a second page and back
C8_Witness ==
    /\ last.op = "get_page_as_bs4"
    /\ last.outcome = "ok"
    /\ Len(wd.hist) = 2
    /\ wd.pos = 1
    /\ wd.rev = 1

\* the implicitly_wait call of the operation that just ran raised
ImplicitWaitRaised ==
    /\ last.outcome = "WebDriverException"
    /\ Len(calls) = 1
    /\ calls[1][1] = "implicitly_wait"

\* C9: a find_element_by / find_elements_by with a timeout t and no condition
\* whose implicitly_wait call the driver accepted leaves the session's
\* implicit-wait timeout at t, whatever the lookup then does; a lookup without
\* a timeout, with a condition, or through find_element / find_elements leaves
\* the timeout as it was; and only an operation that calls implicitly_wait or
\* sets the timeouts changes it.
C9_ImplicitWaitIsSticky ==
    [][/\ ((/\ Idle
            /\ last'.op \in LookupOps
            /\ last'.args[3] # None
            /\ last'.args[4] = None
            /\ ~ImplicitWaitRaised')
             => (wd'.implicit = last'.args[3][1]))
       /\ ((/\ Idle
            /\ last'.op \in LookupOps
            /\ (last'.args[3] = None \/ last'.args[4] # None))
             => (wd'.implicit = wd.implicit))
       /\ ((Idle /\ last'.op \in {"find_element", "find_elements"})
             => (wd'.implicit = wd.implicit))
       /\ ((wd'.implicit # wd.implicit)
             => (\E i \in 1..Len(calls') :
                    calls'[i][1] \in {"implicitly_wait", "timeouts"}))
      ]_vars

\* a lookup without timeout runs while the timeout an earlier call set is on
C9_Witness ==
    /\ last.op \in {"find_element", "find_element_by"}
    /\ (last.op = "find_element_by" => last.args[3] = None)
    /\ last.outcome = "ok"
    /\ wd.implicit = MaxTimeout

(***************************************************************************)
(* The functions by themselves.  Each has a specification of its own: Init *)
(* draws the arguments, the actions call the function (and the operations  *)
(* that use it, on a fresh session) and keep what it did in `out`.         *)
(***************************************************************************)
SessionUntouched ==
    /\ wd = WdInit
    /\ ctx = CtxInit
    /\ calls = <<>>
    /\ last = LastInit

Called(op, r) ==
    /\ out.outcome = "pending"
    /\ out' = [op |-> op, outcome |-> r.outcome, r |-> r]
    /\ UNCHANGED <<inp, sessVars>>

(***************************************************************************)
(* SpecBy: _parse_str_to_by_enum, find_element_by and find_elements_by on  *)
(* locator names of every shape.                                           *)
(***************************************************************************)
MaxByLen == 2       \* length of the arbitrary locator names tried

ByInputs ==
    {_By[i] : i \in 1..Len(_By)}
        \cup {StrUpper(_By[i]) : i \in 1..Len(_By)}
        \cup {m.value : m \in By}
        \cup StringsUpTo({"i", "d", "I", "_"}, MaxByLen)

InitBy ==
    /\ inp \in [by : ByInputs, value : Values]
    /\ out = Pending
    /\ SessionUntouched

ParseBy == Called("_parse_str_to_by_enum", _parse_str_to_by_enum(inp.by))

FindElementByName ==
    \E env \in LookupEnvs("find_element", None, None) :
        Called("find_element_by",
               find_element_by(WdInit, inp.by, inp.value, None, None, env))

FindElementsByName ==
    \E env \in LookupEnvs("find_elements", None, None) :
        Called("find_elements_by",
               find_elements_by(WdInit, inp.by, inp.value, None, None, env))

NextBy == ParseBy \/ FindElementByName \/ FindElementsByName

SpecBy == InitBy /\ [][NextBy]_vars

\* the eight supported locator names with the value of the By member each
\* one names
SupportedLocators == {
    <<<<"i","d">>, <<"i","d">>>>,
    <<<<"n","a","m","e">>, <<"n","a","m","e">>>>,
    <<<<"x","p","a","t","h">>, <<"x","p","a","t","h">>>>,
    <<<<"l","i","n","k","_","t","e","x","t">>, <<"l","i","n","k"," ","t","e","x","t">>>>,
    <<<<"p","a","r","t","i","a","l","_","l","i","n","k","_","t","e","x","t">>,
      <<"p","a","r","t","i","a","l"," ","l","i","n","k"," ","t","e","x","t">>>>,
    <<<<"t","a","g","_","n","a","m","e">>, <<"t","a","g"," ","n","a","m","e">>>>,
    <<<<"c","l","a","s","s","_","n","a","m","e">>, <<"c","l","a","s","s"," ","n","a","m","e">>>>,
    <<<<"c","s","s","_","s","e","l","e","c","t","o","r">>,
      <<"c","s","s"," ","s","e","l","e","c","t","o","r">>>> }

IsSupportedLocator(by) == \E p \in SupportedLocators : p[1] = by
LocatorValue(by) == (CHOOSE p \in SupportedLocators : p[1] = by)[2]

\* C2: _parse_str_to_by_enum returns, for each of the eight supported names,
\* the value of the By member of that name, and raises ValueError for every
\* other string; find_element_by and find_elements_by then make one
\* find_element / find_elements call with that By value and the value string
\* as given, and make no call for an unsupported name.
C2_LocatorNameToBy ==
    /\ (out.op = "_parse_str_to_by_enum" =>
            IF IsSupportedLocator(inp.by)
            THEN out.r = [outcome |-> "ok", value |-> LocatorValue(inp.by)]
            ELSE out.r = [outcome |-> "ValueError"])
    /\ (out.op \in LookupOps =>
            IF IsSupportedLocator(inp.by)
            THEN out.r.calls =
                    <<Call(LookupMethod(out.op), <<LocatorValue(inp.by), inp.value>>)>>
            ELSE out.outcome = "ValueError" /\ out.r.calls = <<>>)

C2_Witness ==
    /\ out.op = "find_elements_by"
    /\ inp.by = _By[5]
    /\ out.outcome = "ok"
    /\ out.r.calls[1][2][1] = <<"p","a","r","t","i","a","l"," ","l","i","n","k"," ","t","e","x","t">>

(***************************************************************************)
(* SpecShot: _normalize_screenshot_filename, get_screenshot_as_file and    *)
(* save_screenshot on filenames of every shape.                            *)
(***************************************************************************)
MaxNameLen == 5     \* length of the filenames tried

FilenameChars == {"a", ".", "p", "n", "g", "N"}

InitShot ==
    /\ inp \in [filename : StringsUpTo(FilenameChars, MaxNameLen)]
    /\ out = Pending
    /\ SessionUntouched

Normalize ==
    Called("_normalize_screenshot_filename",
           [outcome |-> "ok", value |-> _normalize_screenshot_filename(inp.filename)])

ShotAsFile ==
    \E env \in Envs("get_screenshot_as_file") :
        Called("get_screenshot_as_file", get_screenshot_as_file(WdInit, inp.filename, env))

ShotSave ==
    \E env \in Envs("get_screenshot_as_file") :
        Called("save_screenshot", save_screenshot(WdInit, inp.filename, env))

NextShot == Normalize \/ ShotAsFile \/ ShotSave

SpecShot == InitShot /\ [][NextShot]_vars

\* s ends with ".png" in any letter case
HasPngSuffix(s) ==
    /\ Len(s) >= 4
    /\ s[Len(s) - 3] = "."
    /\ s[Len(s) - 2] \in {"p", "P"}
    /\ s[Len(s) - 1] \in {"n", "N"}
    /\ s[Len(s)] \in {"g", "G"}

NormalizedName(s) == IF HasPngSuffix(s) THEN s ELSE s \o <<".", "p", "n", "g">>

\* C3: _normalize_screenshot_filename returns a filename that ends with ".png"
\* in any letter case as it is and any other with ".png" appended; normalizing
\* the result again changes nothing; get_screenshot_as_file and save_screenshot
\* both make one get_screenshot_as_file call of the driver with that same
\* filename, which ends with ".png" in some letter case.
C3_ScreenshotFilename ==
    /\ (out.op = "_normalize_screenshot_filename" =>
            /\ out.r.value = NormalizedName(inp.filename)
            /\ _normalize_screenshot_filename(out.r.value) = out.r.value)
    /\ (out.op \in {"get_screenshot_as_file", "save_screenshot"} =>
            /\ out.r.calls =
                    <<Call("get_screenshot_as_file", <<NormalizedName(inp.filename)>>)>>
            /\ HasPngSuffix(out.r.calls[1][2][1]))

C3_Witness ==
    /\ out.op = "save_screenshot"
    /\ inp.filename = <<"a", ".", "p", "N", "g">>
    /\ out.r.calls = <<Call("get_screenshot_as_file", <<inp.filename>>)>>

(***************************************************************************)
(* drivers.py.  A Python value handed over as `options` is a record: its   *)
(* kind (None, a list, a str, a tuple, an options object), its class, its  *)
(* identity where it is an object (the caller's is 1, one the call         *)
(* constructs is 2) and its items (a list's items, a str's pieces, an      *)
(* options object's arguments).  An argument string is a sequence of       *)
(* pieces, so that f"user-agent={x}" is the piece "user-agent=" before x.  *)
(***************************************************************************)
MaxOpts == 2        \* length of the lists and argument lists tried

OptionsTypes == {"ChromeOptions", "EdgeOptions", "FirefoxOptions", "IeOptions"}
ArgStrings == {<<"--headless">>, <<"--no-sandbox">>}
ArgLists == UNION {[1..k -> ArgStrings] : k \in 0..MaxOpts}

PyNone == [kind |-> "None", type |-> "NoneType", id |-> 0, items |-> <<>>]
PyList(items) == [kind |-> "list", type |-> "list", id |-> 0, items |-> items]
PyStr(pieces) == [kind |-> "str", type |-> "str", id |-> 0, items |-> pieces]
PyTuple(items) == [kind |-> "tuple", type |-> "tuple", id |-> 0, items |-> items]
OptionsObject(type, id, arguments) ==
    [kind |-> "options", type |-> type, id |-> id, items |-> arguments]

\* bool(v)
Truthy(v) ==
    CASE v.kind = "None" -> FALSE
      [] v.kind \in {"list", "str", "tuple"} -> v.items # <<>>
      [] OTHER -> TRUE

\* isinstance(v, cls): the four options classes are leaves of selenium's
\* hierarchy, none a subclass of another
IsInstance(v, cls) == v.type = cls

\* options_type(): a new object without arguments
NewOptions(options_type) == OptionsObject(options_type, 2, <<>>)

\* options_obj.add_argument(option)
add_argument(options_obj, option) ==
    [options_obj EXCEPT !.items = Append(@, option)]

\* for option in options: options_obj.add_argument(option), from item i on
RECURSIVE AddArguments(_, _, _)
AddArguments(options_obj, options, i) ==
    IF i > Len(options) THEN options_obj
    ELSE AddArguments(add_argument(options_obj, options[i]), options, i + 1)

\* a plausible slip: any options object let through, whatever its class
_parse_options_any_class(options, options_type) ==
    IF Truthy(options) /\ ~IsInstance(options, "list") /\ options.kind # "options"
    THEN [outcome |-> "ValueError", made |-> 0, value |-> PyNone]
    ELSE IF ~Truthy(options)
    THEN [outcome |-> "ok", made |-> 1, value |-> NewOptions(options_type)]
    ELSE IF IsInstance(options, "list")
    THEN [outcome |-> "ok", made |-> 1,
          value |-> AddArguments(NewOptions(options_type), options.items, 1)]
    ELSE [outcome |-> "ok", made |-> 0, value |-> options]

\* _parse_options(options, options_type): the object, and how many objects
\* were constructed on the way
_parse_options(options, options_type) ==
    IF Truthy(options) /\ ~IsInstance(options, "list") /\ ~IsInstance(options, options_type)
    THEN [outcome |-> "ValueError", made |-> 0, value |-> PyNone]
    ELSE IF ~Truthy(options)
    THEN [outcome |-> "ok", made |-> 1, value |-> NewOptions(options_type)]
    ELSE IF IsInstance(options, "list")
    THEN [outcome |-> "ok", made |-> 1,
          value |-> AddArguments(NewOptions(options_type), options.items, 1)]
    ELSE [outcome |-> "ok", made |-> 0, value |-> options]

(***************************************************************************)
(* SpecOpts: _parse_options on every kind of value.                        *)
(***************************************************************************)
OptionsInputs ==
    {PyNone}
        \cup {PyList(l) : l \in ArgLists}
        \cup {OptionsObject(t, 1, l) : t \in OptionsTypes, l \in ArgLists}
        \cup {PyStr(<<>>), PyStr(<<"--headless">>)}
        \cup {PyTuple(<<>>), PyTuple(<<<<"--headless">>>>)}

InitOpts ==
    /\ inp \in [options : OptionsInputs, options_type : OptionsTypes]
    /\ out = Pending
    /\ SessionUntouched

ParseOptions == Called("_parse_options", _parse_options(inp.options, inp.options_type))

NextOpts == ParseOptions

SpecOpts == InitOpts /\ [][NextOpts]_vars

SupportedBrowser ==
    {"chrome", "undetected_chrome", "chromium", "brave", "edge", "firefox", "ie", "opera"}

BrowserDriver(manager_obj, driver_type, service_type, options_type) ==
    [manager_obj |-> manager_obj, driver_type |-> driver_type,
     service_type |-> service_type, options_type |-> options_type]

_BROWSER_PARAMS_MAP ==
    ("chrome" :> BrowserDriver("ChromeDriverManager()", "ChromeDriver",
                               "ChromeService", "ChromeOptions"))
    @@ ("undetected_chrome" :> BrowserDriver("ChromeDriverManager(GOOGLE)",
                               "UndetectedChromeDriver", "ChromeService", "ChromeOptions"))
    @@ ("chromium" :> BrowserDriver("ChromeDriverManager(CHROMIUM)", "ChromeDriver",
                               "ChromeService", "ChromeOptions"))
    @@ ("brave" :> BrowserDriver("ChromeDriverManager(BRAVE)", "ChromeDriver",
                               "ChromeService", "ChromeOptions"))
    @@ ("edge" :> BrowserDriver("EdgeChromiumDriverManager()", "EdgeDriver",
                               "EdgeService", "EdgeOptions"))
    @@ ("firefox" :> BrowserDriver("GeckoDriverManager()", "FirefoxDriver",
                               "FirefoxService", "FirefoxOptions"))
    @@ ("ie" :> BrowserDriver("IEDriverManager()", "IeDriver",
                               "IEService", "IeOptions"))
    @@ ("opera" :> BrowserDriver("OperaDriverManager()", "RemoteDriver",
                               "ChromeService", "ChromeOptions"))

\* bool(x) of an argument that is None or a str
TruthyStr(x) == x # None /\ x[1] # <<>>

\* _parse_executable_path(executable_path, driver_manager)
_parse_executable_path(executable_path, driver_manager, env) ==
    IF ~TruthyStr(executable_path)
    THEN IF env.install_fails
         THEN [outcome |-> "InstallError", events |-> <<<<"install", driver_manager>>>>,
               value |-> <<>>]
         ELSE [outcome |-> "ok", events |-> <<<<"install", driver_manager>>>>,
               value |-> <<"installed by", driver_manager>>]
    ELSE [outcome |-> "ok", events |-> <<>>, value |-> executable_path[1]]

\* the user agents: None, a str, a fake_useragent.UserAgent
UaNone == [kind |-> "None", value |-> <<>>]
UaStr(v) == [kind |-> "str", value |-> v]
UaObject == [kind |-> "UserAgent", value |-> <<>>]
\* a plausible slip: the user agent tested against None, not for truth
TruthyUaNotNone(user_agent) == user_agent.kind # "None"

TruthyUa(user_agent) ==
    user_agent.kind = "UserAgent" \/ (user_agent.kind = "str" /\ user_agent.value # <<>>)

\* _add_user_agent(options, user_agent): the argument it adds
UserAgentArgument(user_agent, env) ==
    <<"user-agent=">> \o (IF user_agent.kind = "UserAgent" THEN env.random
                          ELSE user_agent.value)

_add_user_agent(options, user_agent, env) ==
    add_argument(options, UserAgentArgument(user_agent, env))

\* the events of _parse_options: the construction, then the arguments added
ParseOptionsEvents(options, options_type) ==
    LET p == _parse_options(options, options_type)
    IN  IF p.made = 0 THEN <<>>
        ELSE <<<<"new options", options_type>>>>
                 \o [i \in 1..Len(p.value.items) |-> <<"add_argument", p.value.items[i]>>]

\* options.add_experimental_option(name, value): kept apart from the arguments
add_experimental_option(options, name, value) ==
    [kind |-> options.kind, type |-> options.type, id |-> options.id,
     items |-> options.items, experimental |-> <<<<name, value>>>>]

\* a plausible slip: opera built like every other browser
DriverShapeNoOpera(browser) ==
    IF browser = "undetected_chrome" THEN "direct" ELSE "service"

\* the two tests on the browser name: which of the three constructions runs
DriverShape(browser) ==
    IF browser = "undetected_chrome" THEN "direct"
    ELSE IF browser = "opera" THEN "remote"
    ELSE "service"

\* create_driver from line 149 on, for a browser of _BROWSER_PARAMS_MAP
CreateKnownDriver(browser, executable_path, options, user_agent, keep_alive, env) ==
    LET browser_driver == _BROWSER_PARAMS_MAP[browser]
        path == _parse_executable_path(executable_path, browser_driver.manager_obj, env)
        parsed == _parse_options(options, browser_driver.options_type)
        ev2 == path.events \o ParseOptionsEvents(options, browser_driver.options_type)
        opts3 == IF TruthyUa(user_agent)
                 THEN _add_user_agent(parsed.value, user_agent, env)
                 ELSE parsed.value
        ev3 == IF TruthyUa(user_agent)
               THEN Append(ev2, <<"add_argument", UserAgentArgument(user_agent, env)>>)
               ELSE ev2
        Failed(outcome, events, opts) ==
            [outcome |-> outcome, events |-> events, options |-> opts,
             driver |-> <<>>]
        Built(events, opts, ctor) ==
            IF env.ctor_fails
            THEN Failed("DriverError", Append(events, ctor), opts)
            ELSE [outcome |-> "ok", events |-> Append(events, ctor), options |-> opts,
                  driver |-> ctor]
    IN  IF path.outcome # "ok" THEN Failed(path.outcome, path.events, PyNone)
        ELSE IF parsed.outcome # "ok" THEN Failed(parsed.outcome, ev2, PyNone)
        ELSE IF DriverShape(browser) = "direct"
        THEN Built(ev3, opts3,
                   <<"driver", browser_driver.driver_type,
                     [executable_path |-> path.value, options |-> opts3,
                      keep_alive |-> keep_alive]>>)
        ELSE IF DriverShape(browser) = "remote"
        THEN LET ev4 == ev3 \o <<<<"service", "ChromeService", path.value>>,
                                 <<"service.start">>>>
                 opts5 == add_experimental_option(opts3, "w3c", "True")
                 ev5 == Append(ev4, <<"add_experimental_option", <<"w3c", "True">>>>)
             IN  IF env.start_fails THEN Failed("ServiceError", ev4, opts3)
                 ELSE Built(ev5, opts5,
                            <<"driver", browser_driver.driver_type,
                              [command_executor |-> <<"service_url of", "ChromeService", path.value>>,
                               options |-> opts5, keep_alive |-> keep_alive]>>)
        ELSE Built(Append(ev3, <<"service", browser_driver.service_type, path.value>>), opts3,
                   <<"driver", browser_driver.driver_type,
                     [service |-> <<browser_driver.service_type, path.value>>,
                      options |-> opts3, keep_alive |-> keep_alive]>>)

\* a plausible slip: a default browser instead of the error
create_driver_with_default(browser, executable_path, options, user_agent, keep_alive, env) ==
    CreateKnownDriver(IF browser \in DOMAIN _BROWSER_PARAMS_MAP THEN browser ELSE "chrome",
                      executable_path, options, user_agent, keep_alive, env)

\* create_driver(browser, executable_path=, options=, user_agent=, keep_alive=)
create_driver(browser, executable_path, options, user_agent, keep_alive, env) ==
    IF browser \notin DOMAIN _BROWSER_PARAMS_MAP
    THEN [outcome |-> "ValueError", events |-> <<>>, options |-> PyNone, driver |-> <<>>]
    ELSE CreateKnownDriver(browser, executable_path, options, user_agent, keep_alive, env)

(***************************************************************************)
(* SpecDrv: create_driver on supported and unsupported browser names.      *)
(***************************************************************************)
BrowserInputs == SupportedBrowser \cup {"safari", "Chrome", ""}
PathInputs == {None, Some(<<>>), Some(<<"/opt/driver">>)}
DriverOptionsInputs ==
    {PyNone, PyList(<<<<"--headless">>>>), PyStr(<<"--headless">>),
     OptionsObject("ChromeOptions", 1, <<<<"--no-sandbox">>>>),
     OptionsObject("FirefoxOptions", 1, <<>>)}
UserAgentInputs == {UaNone, UaStr(<<>>), UaStr(<<"UA/1">>), UaObject}
DriverEnvs ==
    [install_fails : BOOLEAN, start_fails : BOOLEAN, ctor_fails : BOOLEAN,
     random : {<<"UA/random">>}]

InitDrv ==
    /\ inp \in [browser : BrowserInputs, executable_path : PathInputs,
                 options : DriverOptionsInputs, user_agent : UserAgentInputs,
                 keep_alive : BOOLEAN]
    /\ out = Pending
    /\ SessionUntouched

CreateDriver ==
    \E env \in DriverEnvs :
        Called("create_driver",
               create_driver(inp.browser, inp.executable_path, inp.options,
                             inp.user_agent, inp.keep_alive, env))

NextDrv == CreateDriver

SpecDrv == InitDrv /\ [][NextDrv]_vars

\* C5: create_driver with a browser name that is none of chrome,
\* undetected_chrome, chromium, brave, edge, firefox, ie, opera raises
\* ValueError with nothing done: no install(), no options object constructed
\* or changed, no service, no driver.
C5_UnsupportedBrowser ==
    (/\ out.op = "create_driver"
     /\ inp.browser \notin {"chrome", "undetected_chrome", "chromium", "brave",
                             "edge", "firefox", "ie", "opera"})
        => (out.outcome = "ValueError" /\ out.r.events = <<>> /\ out.r.driver = <<>>)

C5_Witness ==
    /\ out.op = "create_driver"
    /\ inp.browser = "safari"
    /\ inp.executable_path = None
    /\ inp.options = PyList(<<<<"--headless">>>>)
    /\ out.outcome = "ValueError"

(***************************************************************************)
(* SpecWait: wait_until step by step.  `now` is time.monotonic() in ticks; *)
(* an evaluation of the condition takes 0..MaxEvalTicks of them, a sleep   *)
(* takes poll_frequency.  The clock advances as the code runs: the steps   *)
(* that take time are strongly fair.                                       *)
(***************************************************************************)
MaxWaitTimeout == 2
MaxPollTicks == 1
MaxEvalTicks == 1

InitWait ==
    /\ inp \in [timeout : 0..MaxWaitTimeout, poll_frequency : 0..MaxPollTicks]
    /\ out = [op |-> "wait_until", pc |-> "start", now |-> 0, end_time |-> 0,
              seen |-> {}, outcome |-> "pending"]
    /\ SessionUntouched

WaitUnchanged == UNCHANGED <<inp, sessVars>>

\* end_time = time.monotonic() + self._timeout
WaitStart ==
    /\ out.pc = "start"
    /\ out' = [out EXCEPT !.pc = "eval", !.end_time = out.now + inp.timeout]
    /\ WaitUnchanged

\* value = method(self._driver), and what the loop does with it
WaitEvaluate ==
    /\ out.pc = "eval"
    /\ \E e \in EvalOutcomes, d \in 0..MaxEvalTicks :
          LET o == [out EXCEPT !.now = @ + d, !.seen = @ \cup {e}]
          IN  out' = CASE AfterEvaluation(e) = "return" ->
                            [o EXCEPT !.pc = "done", !.outcome = "ok"]
                       [] AfterEvaluation(e) = "raise" ->
                            [o EXCEPT !.pc = "done", !.outcome = "ConditionError"]
                       [] OTHER -> [o EXCEPT !.pc = "check"]
    /\ WaitUnchanged

\* if time.monotonic() > end_time: break, and the raise after the loop
WaitCheck ==
    /\ out.pc = "check"
    /\ out' = IF out.now > out.end_time
              THEN [out EXCEPT !.pc = "done", !.outcome = "TimeoutException"]
              ELSE [out EXCEPT !.pc = "sleep"]
    /\ WaitUnchanged

\* time.sleep(self._poll)
WaitSleep ==
    /\ out.pc = "sleep"
    /\ out' = [out EXCEPT !.pc = "eval", !.now = @ + inp.poll_frequency]
    /\ WaitUnchanged

NextWait == WaitStart \/ WaitEvaluate \/ WaitCheck \/ WaitSleep

ClockAdvances == NextWait /\ out'.now > out.now

SpecWait ==
    InitWait /\ [][NextWait]_vars /\ WF_vars(NextWait) /\ SF_vars(ClockAdvances)

WaitDone == out.pc = "done"

\* C6 as stated: the wait ends in a normal return or in a timeout error,
\* nothing else.
C6_ReturnsOrTimesOut ==
    WaitDone => out.outcome \in {"ok", "TimeoutException"}

WaitOutcomes ==
    /\ ("truthy" \in out.seen) <=> (WaitDone /\ out.outcome = "ok")
    /\ ("error" \in out.seen) <=> (WaitDone /\ out.outcome = "ConditionError")
    /\ (WaitDone /\ out.outcome = "TimeoutException")
          => (out.end_time = inp.timeout /\ out.now > out.end_time)
    /\ WaitDone => out.outcome \in {"ok", "ConditionError", "TimeoutException"}

\* C6: wait_until always terminates when every evaluation of the condition
\* does; it returns normally exactly when an evaluation was truthy, never
\* when every evaluation was falsy; an exception of the condition that is
\* not ignored ends it with that exception; otherwise it ends with a timeout
\* error, and only once the timeout has elapsed.
C6_WaitTerminates == []WaitOutcomes /\ <>WaitDone

C6_Witness ==
    /\ WaitDone
    /\ out.outcome = "TimeoutException"
    /\ out.seen = {"falsy", "ignored"}
    /\ inp.timeout = MaxWaitTimeout
    /\ inp.poll_frequency = 0

(***************************************************************************)
(* expected_conditions.py.  The element is its style attribute: None or a  *)
(* str.                                                                    *)
(***************************************************************************)
\* s.split(sep) for a separator of one character
RECURSIVE Split(_, _)
Split(s, sep) ==
    IF \A i \in 1..Len(s) : s[i] # sep THEN <<s>>
    ELSE LET i == CHOOSE j \in 1..Len(s) :
                      s[j] = sep /\ \A k \in 1..(j - 1) : s[k] # sep
         IN  <<SubSeq(s, 1, i - 1)>> \o Split(SubSeq(s, i + 1, Len(s)), sep)

\* s.strip(), the whitespace being the space
RECURSIVE Strip(_)
Strip(s) ==
    IF s = <<>> THEN s
    ELSE IF s[1] = " " THEN Strip(Tail(s))
    ELSE IF s[Len(s)] = " " THEN Strip(SubSeq(s, 1, Len(s) - 1))
    ELSE s

\* a plausible slip: the parts of a declaration kept with their whitespace
declaration_items_unstripped(declaration) == Split(declaration, ":")

\* [it.strip() for it in declaration.split(":")]
declaration_items(declaration) ==
    LET parts == Split(declaration, ":")
    IN  [i \in 1..Len(parts) |-> Strip(parts[i])]

\* the loop over css_declarations from declaration i on
RECURSIVE AnyDeclarationMatches(_, _, _, _)
AnyDeclarationMatches(css_declarations, i, search_property, search_value) ==
    IF i > Len(css_declarations) THEN FALSE
    ELSE LET items == declaration_items(css_declarations[i])
         IN  IF Len(items) # 2
             THEN AnyDeclarationMatches(css_declarations, i + 1, search_property, search_value)
             ELSE IF /\ items[1] = search_property
                     /\ (search_value = None \/ items[2] = search_value[1])
             THEN TRUE
             ELSE AnyDeclarationMatches(css_declarations, i + 1, search_property, search_value)

\* _check_if_has_css_declaration(element, search_property, search_value,
\* is_case_sensitive=): search_value.lower() on None raises AttributeError
_check_if_has_css_declaration(style, search_property, search_value, is_case_sensitive) ==
    IF style = None THEN [outcome |-> "ok", value |-> FALSE]
    ELSE IF ~is_case_sensitive /\ search_value = None
    THEN [outcome |-> "AttributeError", value |-> FALSE]
    ELSE LET style2 == IF ~is_case_sensitive THEN StrLower(style[1]) ELSE style[1]
             property2 == IF ~is_case_sensitive THEN StrLower(search_property)
                          ELSE search_property
             value2 == IF ~is_case_sensitive THEN Some(StrLower(search_value[1]))
                       ELSE search_value
         IN  [outcome |-> "ok",
              value |-> AnyDeclarationMatches(Split(style2, ";"), 1, property2, value2)]

\* the predicate element_has_css_declaration(locator, css_property, css_value)
\* returns, applied to a driver: find_element first, which may raise
element_has_css_declaration(found, style, css_property, css_value, is_case_sensitive) ==
    IF ~found THEN [outcome |-> "NoSuchElementException", value |-> FALSE]
    ELSE _check_if_has_css_declaration(style, css_property, css_value, is_case_sensitive)

(***************************************************************************)
(* SpecCss: the declaration check on every style up to MaxStyleLen.        *)
(***************************************************************************)
MaxStyleLen == 5
StyleChars == {"a", "A", ":", ";", " "}
SearchStrings == {<<"a">>, <<"A">>}

InitCss ==
    /\ inp \in [style : {None} \cup {Some(t) : t \in StringsUpTo(StyleChars, MaxStyleLen)},
                 search_property : SearchStrings,
                 search_value : {None} \cup {Some(v) : v \in SearchStrings},
                 is_case_sensitive : BOOLEAN]
    /\ out = Pending
    /\ SessionUntouched

CheckCss ==
    Called("_check_if_has_css_declaration",
           _check_if_has_css_declaration(inp.style, inp.search_property,
                                         inp.search_value, inp.is_case_sensitive))

\* css_value is a str for the predicate
PredicateCss ==
    /\ inp.search_value # None
    /\ \E found \in BOOLEAN :
          Called("element_has_css_declaration",
                 element_has_css_declaration(found, inp.style, inp.search_property,
                                             inp.search_value, inp.is_case_sensitive))

NextCss == CheckCss \/ PredicateCss

SpecCss == InitCss /\ [][NextCss]_vars

\* x without its leading and trailing spaces
Trimmed(x) ==
    LET solid == {i \in 1..Len(x) : x[i] # " "}
    IN  IF solid = {} THEN <<>>
        ELSE SubSeq(x, CHOOSE i \in solid : \A j \in solid : i <= j,
                       CHOOSE i \in solid : \A j \in solid : i >= j)

\* the ';'-separated pieces of s, as pairs of first and last position
Pieces(s) ==
    {p \in (1..(Len(s) + 1)) \X (0..Len(s)) :
        /\ p[1] <= p[2] + 1
        /\ (p[1] = 1 \/ s[p[1] - 1] = ";")
        /\ (p[2] = Len(s) \/ s[p[2] + 1] = ";")
        /\ \A k \in p[1]..p[2] : s[k] # ";"}

\* some piece of s has exactly one ':', the trimmed property before it and
\* the trimmed value after it
Declares(s, property, value) ==
    \E p \in Pieces(s) :
        LET colons == {k \in p[1]..p[2] : s[k] = ":"}
        IN  /\ Cardinality(colons) = 1
            /\ \E k \in colons :
                  /\ Trimmed(SubSeq(s, p[1], k - 1)) = property
                  /\ Trimmed(SubSeq(s, k + 1, p[2])) = value

CssChecked == out.op = "_check_if_has_css_declaration"

\* C10: _check_if_has_css_declaration returns False for an element without
\* a style attribute; for a style and a search value that are strings it
\* returns True exactly when some ';'-separated piece of the style has
\* exactly one ':' with the trimmed property equal to search_property and
\* the trimmed value equal to search_value, all three lower-cased first
\* unless is_case_sensitive.
C10_CssDeclaration ==
    /\ (CssChecked /\ inp.style = None) => (out.outcome = "ok" /\ out.r.value = FALSE)
    /\ (CssChecked /\ inp.style # None /\ inp.search_value # None) =>
          /\ out.outcome = "ok"
          /\ out.r.value =
                IF inp.is_case_sensitive
                THEN Declares(inp.style[1], inp.search_property, inp.search_value[1])
                ELSE Declares(StrLower(inp.style[1]), StrLower(inp.search_property),
                              StrLower(inp.search_value[1]))

C10_Witness ==
    /\ CssChecked
    /\ inp.style = Some(<<" ", "A", ":", "a">>)
    /\ inp.search_property = <<"a">>
    /\ inp.search_value = Some(<<"A">>)
    /\ ~inp.is_case_sensitive
    /\ out.r.value = TRUE

\* some piece of s has exactly one ':' and the trimmed property before it
DeclaresProperty(s, property) ==
    \E p \in Pieces(s) :
        LET colons == {k \in p[1]..p[2] : s[k] = ":"}
        IN  /\ Cardinality(colons) = 1
            /\ \E k \in colons : Trimmed(SubSeq(s, p[1], k - 1)) = property

\* C11: _check_if_has_css_declaration with search_value None raises no error
\* and, for both values of is_case_sensitive, returns True exactly when the
\* style has a well-formed declaration of search_property, whatever its
\* value.
C11_NoneMatchesProperty ==
    (CssChecked /\ inp.search_value = None) =>
        /\ out.outcome = "ok"
        /\ out.r.value =
              (/\ inp.style # None
               /\ IF inp.is_case_sensitive
                  THEN DeclaresProperty(inp.style[1], inp.search_property)
                  ELSE DeclaresProperty(StrLower(inp.style[1]),
                                        StrLower(inp.search_property)))

\* what the code does with search_value None: the claim's behaviour when
\* is_case_sensitive, AttributeError when not and the element has a style
C11_NoneRaisesUnlessCaseSensitive ==
    (CssChecked /\ inp.search_value = None /\ inp.style # None) =>
        IF inp.is_case_sensitive
        THEN /\ out.outcome = "ok"
             /\ out.r.value = DeclaresProperty(inp.style[1], inp.search_property)
        ELSE out.outcome = "AttributeError"

C11_Witness ==
    /\ CssChecked
    /\ inp.search_value = None
    /\ ~inp.is_case_sensitive
    /\ inp.style = Some(<<"a", ":", "A">>)
    /\ inp.search_property = <<"a">>
    /\ out.outcome = "AttributeError"

(***************************************************************************)
(* SpecFind: the four finders of BrowserInterface on a fresh session, the  *)
(* environment's choices being part of the input: whether the lookup       *)
(* raises, what it returns, whether implicitly_wait raises, what the       *)
(* evaluations of the condition give, which get_attribute raises.          *)
(***************************************************************************)
MaxFound == 2

FoundLists == {<<>>, <<"e1">>, <<"e2", "e1">>}

FindEvalScripts == UNION {[1..n -> EvalOutcomes] : n \in 1..MaxPolls}

FindEnvInputs(t, c) ==
    [fail : BOOLEAN, ret1 : Elements, retn : FoundLists,
     wfail : IF t # None /\ c = None THEN BOOLEAN ELSE {FALSE},
     evs : IF t # None /\ c # None THEN FindEvalScripts ELSE {<<"truthy">>},
     afail : 0..MaxFound]

FindInputs ==
    UNION {[by : SessBys, value : Values, timeout_in_s : {t}, condition : {c},
            env : FindEnvInputs(t, c)] : t \in OptTimeouts, c \in OptConditions}

\* the environment as the finder over `method` meets it
FindEnv(method) ==
    [fail |-> inp.env.fail,
     ret |-> IF method = "find_element" THEN inp.env.ret1 ELSE inp.env.retn,
     wfail |-> inp.env.wfail, evs |-> inp.env.evs, afail |-> inp.env.afail]

InitFind ==
    /\ inp \in FindInputs
    /\ out = Pending
    /\ SessionUntouched

FindOne ==
    Called("find_element_by",
           find_element_by(WdInit, inp.by, inp.value, inp.timeout_in_s, inp.condition,
                           FindEnv("find_element")))

FindMany ==
    Called("find_elements_by",
           find_elements_by(WdInit, inp.by, inp.value, inp.timeout_in_s, inp.condition,
                            FindEnv("find_elements")))

FindBs4One ==
    Called("find_bs4_element_by",
           find_bs4_element_by(WdInit, inp.by, inp.value, inp.timeout_in_s, inp.condition,
                               FindEnv("find_element")))

FindBs4Many ==
    Called("find_bs4_elements_by",
           find_bs4_elements_by(WdInit, inp.by, inp.value, inp.timeout_in_s,
                                inp.condition, FindEnv("find_elements")))

NextFind == FindOne \/ FindMany \/ FindBs4One \/ FindBs4Many

SpecFind == InitFind /\ [][NextFind]_vars

\* the calls of a finder, those on the elements left out
DriverCalls(cs) == SelectSeq(cs, LAMBDA c : c[1] # "get_attribute")
CallsOf(cs, methods) == SelectSeq(cs, LAMBDA c : c[1] \in methods)

\* C12: find_bs4_element_by returns the parse tree of the outerHTML of the
\* element find_element_by returns for the same arguments, and
\* find_bs4_elements_by one parse tree per element of find_elements_by, in
\* order (none for no element); both make the driver calls of their finder
\* and no other lookup, and raise what their finder raises.
C12_Bs4Finders ==
    /\ (out.op = "find_bs4_element_by") =>
          LET ref == find_element_by(WdInit, inp.by, inp.value, inp.timeout_in_s,
                                     inp.condition, FindEnv("find_element"))
          IN  /\ DriverCalls(out.r.calls) = ref.calls
              /\ (ref.outcome # "ok" => out.outcome = ref.outcome)
              /\ (out.outcome = "ok" =>
                    /\ ref.outcome = "ok"
                    /\ ref.result = inp.env.ret1
                    /\ out.r.result = <<"soup", <<"outerHTML", inp.env.ret1>>>>
                    /\ Len(CallsOf(out.r.calls, {"find_element", "find_elements"})) = 1)
    /\ (out.op = "find_bs4_elements_by") =>
          LET ref == find_elements_by(WdInit, inp.by, inp.value, inp.timeout_in_s,
                                      inp.condition, FindEnv("find_elements"))
          IN  /\ DriverCalls(out.r.calls) = ref.calls
              /\ (ref.outcome # "ok" => out.outcome = ref.outcome)
              /\ (out.outcome = "ok" =>
                    /\ ref.outcome = "ok"
                    /\ ref.result = inp.env.retn
                    /\ Len(out.r.result) = Len(inp.env.retn)
                    /\ \A i \in 1..Len(inp.env.retn) :
                          out.r.result[i] = <<"soup", <<"outerHTML", inp.env.retn[i]>>>>
                    /\ Len(CallsOf(out.r.calls, {"find_element", "find_elements"})) = 1)

C12_Witness ==
    /\ out.op = "find_bs4_elements_by"
    /\ out.outcome = "ok"
    /\ inp.env.retn = <<"e2", "e1">>
    /\ inp.timeout_in_s # None
    /\ inp.condition # None
    /\ Len(out.r.result) = 2

FinderOps ==
    {"find_element_by", "find_elements_by", "find_bs4_element_by", "find_bs4_elements_by"}
LookupMethods == {"find_element", "find_elements"}
WaitMethods == {"implicitly_wait", "condition"}

\* the explicit wait of the input ends with a truthy evaluation
EvaluationsSucceed ==
    \E i \in 1..Len(inp.env.evs) :
        /\ inp.env.evs[i] = "truthy"
        /\ \A j \in 1..(i - 1) : inp.env.evs[j] \in {"falsy", "ignored"}

\* the waiting step the arguments ask for does not raise
WaitingStepPasses ==
    IF inp.timeout_in_s = None THEN TRUE
    ELSE IF inp.condition = None THEN ~inp.env.wfail
    ELSE EvaluationsSucceed

\* C13: in the finders the waiting step is fixed by the arguments and comes
\* before the lookup.  A timeout (0 included) and no condition: one
\* implicitly_wait(timeout) call first, no evaluation of a condition.  A
\* timeout and a condition: evaluations of the condition with that timeout
\* first, at least one, and no implicitly_wait.  No timeout: neither, a
\* supplied condition is never evaluated.  No lookup precedes a call of the
\* waiting step, and when the waiting step passes and the locator name is
\* supported the lookup is the call right after it.
C13_WaitingStepFirst ==
    (out.op \in FinderOps) =>
        LET cs == out.r.calls
            iw == CallsOf(cs, {"implicitly_wait"})
            ev == CallsOf(cs, {"condition"})
            t == inp.timeout_in_s
            c == inp.condition
        IN  /\ (t # None /\ c = None) =>
                  (/\ Len(iw) = 1
                   /\ cs[1][1] = "implicitly_wait"
                   /\ cs[1][2] = <<t[1]>>
                   /\ ev = <<>>)
            /\ (t # None /\ c # None) =>
                  (/\ iw = <<>>
                   /\ Len(ev) >= 1
                   /\ \A i \in 1..Len(ev) :
                         cs[i][1] = "condition" /\ cs[i][2] = <<c[1], t[1]>>)
            /\ (t = None) => (iw = <<>> /\ ev = <<>>)
            /\ \A i \in 1..Len(cs) : \A j \in 1..Len(cs) :
                  (cs[i][1] \in LookupMethods /\ cs[j][1] \in WaitMethods) => (j < i)
            /\ (WaitingStepPasses /\ In_By(inp.by)) =>
                  (/\ Len(cs) > Len(iw) + Len(ev)
                   /\ cs[Len(iw) + Len(ev) + 1][1] \in LookupMethods)

C13_Witness ==
    /\ out.op = "find_element_by"
    /\ inp.timeout_in_s = Some(0)
    /\ inp.condition = None
    /\ out.outcome = "ok"
    /\ Len(out.r.calls) = 2

\* the explicit wait of the input times out: a timeout and a condition are
\* given and no evaluation is truthy or raises an exception that is not ignored
ExplicitWaitTimesOut ==
    /\ inp.timeout_in_s # None
    /\ inp.condition # None
    /\ \A i \in 1..Len(inp.env.evs) : inp.env.evs[i] \in {"falsy", "ignored"}

\* C14: when a finder is called with a timeout and a condition and the
\* explicit wait times out, the finder ends with the timeout error and
\* neither webdriver.find_element nor find_elements was called, nor
\* anything else after the evaluations of the condition.
C14_TimeoutSkipsLookup ==
    (out.op \in FinderOps /\ ExplicitWaitTimesOut) =>
        (/\ out.outcome = "TimeoutException"
         /\ CallsOf(out.r.calls, LookupMethods) = <<>>
         /\ \A i \in 1..Len(out.r.calls) : out.r.calls[i][1] = "condition"
         /\ out.r.wd = WdInit)

C14_Witness ==
    /\ out.op = "find_bs4_element_by"
    /\ ExplicitWaitTimesOut
    /\ Len(inp.env.evs) = MaxPolls
    /\ In_By(inp.by)
    /\ ~inp.env.fail
    /\ out.outcome = "TimeoutException"

\* C15: find_element_by / find_elements_by with an unsupported locator name
\* raises ValueError with no webdriver method invoked and the session
\* unchanged, for every combination of timeout_in_s and condition.
C15_UnsupportedNameTouchesNothing ==
    (out.op \in {"find_element_by", "find_elements_by"} /\ ~In_By(inp.by)) =>
        (/\ out.outcome = "ValueError"
         /\ out.r.calls = <<>>
         /\ out.r.wd = WdInit)

\* what the code does with an unsupported locator name: the waiting step
\* runs first, so only without a timeout is nothing invoked; the lookup is
\* never called, and ValueError is raised once the waiting step has passed
C15_UnsupportedNameAfterWaiting ==
    (out.op \in {"find_element_by", "find_elements_by"} /\ ~In_By(inp.by)) =>
        (/\ CallsOf(out.r.calls, LookupMethods) = <<>>
         /\ (out.outcome = "ValueError") <=> WaitingStepPasses
         /\ (inp.timeout_in_s = None) => (out.r.calls = <<>> /\ out.r.wd = WdInit)
         /\ (inp.timeout_in_s # None) => (out.r.calls # <<>>)
         /\ (inp.timeout_in_s # None /\ inp.condition = None /\ ~inp.env.wfail) =>
               (out.r.wd.implicit = inp.timeout_in_s[1]))

C15_Witness ==
    /\ out.op = "find_element_by"
    /\ ~In_By(inp.by)
    /\ inp.timeout_in_s = Some(MaxTimeout)
    /\ inp.condition = None
    /\ out.outcome = "ValueError"
    /\ out.r.calls # <<>>
    /\ out.r.wd.implicit = MaxTimeout

\* the capability matrix, written out: driver class and service class
MatrixDriver(browser) ==
    CASE browser \in {"chrome", "chromium", "brave"} -> "ChromeDriver"
      [] browser = "undetected_chrome" -> "UndetectedChromeDriver"
      [] browser = "edge" -> "EdgeDriver"
      [] browser = "firefox" -> "FirefoxDriver"
      [] browser = "ie" -> "IeDriver"
      [] browser = "opera" -> "RemoteDriver"

MatrixService(browser) ==
    CASE browser \in {"chrome", "chromium", "brave", "undetected_chrome", "opera"}
            -> "ChromeService"
      [] browser = "edge" -> "EdgeService"
      [] browser = "firefox" -> "FirefoxService"
      [] browser = "ie" -> "IEService"

MatrixOptions(browser) ==
    CASE browser \in {"chrome", "chromium", "brave", "undetected_chrome", "opera"}
            -> "ChromeOptions"
      [] browser = "edge" -> "EdgeOptions"
      [] browser = "firefox" -> "FirefoxOptions"
      [] browser = "ie" -> "IeOptions"

EventsNamed(events, names) == SelectSeq(events, LAMBDA e : e[1] \in names)
EventPosition(events, name) == CHOOSE i \in 1..Len(events) : events[i][1] = name

DriverCreated == out.op = "create_driver" /\ out.outcome = "ok"

\* the executable path the driver is built on: the caller's when it is not
\* empty, the installed one otherwise
DriverPathIsRight(path) ==
    IF inp.executable_path # None /\ inp.executable_path[1] # <<>>
    THEN path = inp.executable_path[1]
    ELSE path[1] = "installed by"

\* C16: create_driver builds the driver in one of three shapes.
\* undetected_chrome: the driver from executable_path, options and
\* keep_alive, no service.  opera: a ChromeService on the path is started,
\* then the experimental option w3c is set, then a Remote driver is built on
\* the service's URL.  Every other supported browser: its driver class with
\* a service of its service class on the path, never started here.  Always
\* the options object passed is the object _parse_options gave and
\* keep_alive is the caller's.
C16_DriverShapes ==
    DriverCreated =>
        LET ev == out.r.events
            ctor == ev[Len(ev)]
            kw == ctor[3]
            services == EventsNamed(ev, {"service"})
            parsed == _parse_options(inp.options, MatrixOptions(inp.browser))
        IN  /\ ctor[1] = "driver"
            /\ ctor[2] = MatrixDriver(inp.browser)
            /\ Len(EventsNamed(ev, {"driver"})) = 1
            /\ kw.keep_alive = inp.keep_alive
            /\ parsed.outcome = "ok"
            /\ kw.options.id = parsed.value.id
            /\ kw.options.type = MatrixOptions(inp.browser)
            /\ (inp.browser = "undetected_chrome") =>
                  (/\ DOMAIN kw = {"executable_path", "options", "keep_alive"}
                   /\ DriverPathIsRight(kw.executable_path)
                   /\ EventsNamed(ev, {"service", "service.start",
                                       "add_experimental_option"}) = <<>>)
            /\ (inp.browser = "opera") =>
                  (/\ DOMAIN kw = {"command_executor", "options", "keep_alive"}
                   /\ Len(services) = 1
                   /\ services[1][2] = "ChromeService"
                   /\ DriverPathIsRight(services[1][3])
                   /\ kw.command_executor = <<"service_url of", "ChromeService", services[1][3]>>
                   /\ Len(EventsNamed(ev, {"service.start"})) = 1
                   /\ EventsNamed(ev, {"add_experimental_option"})
                         = <<<<"add_experimental_option", <<"w3c", "True">>>>>>
                   /\ EventPosition(ev, "service") + 1 = EventPosition(ev, "service.start")
                   /\ EventPosition(ev, "service.start") + 1
                         = EventPosition(ev, "add_experimental_option")
                   /\ EventPosition(ev, "add_experimental_option") + 1 = Len(ev))
            /\ (inp.browser \notin {"undetected_chrome", "opera"}) =>
                  (/\ DOMAIN kw = {"service", "options", "keep_alive"}
                   /\ Len(services) = 1
                   /\ services[1][2] = MatrixService(inp.browser)
                   /\ DriverPathIsRight(services[1][3])
                   /\ kw.service = <<MatrixService(inp.browser), services[1][3]>>
                   /\ EventsNamed(ev, {"service.start", "add_experimental_option"}) = <<>>)

C16_Witness ==
    /\ DriverCreated
    /\ inp.browser = "opera"
    /\ inp.executable_path = None
    /\ inp.options = PyList(<<<<"--headless">>>>)
    /\ inp.keep_alive = FALSE

\* create_driver got as far as the options: the browser is supported, the
\* executable path was found and the options were accepted
OptionsParsed ==
    /\ out.op = "create_driver"
    /\ out.outcome \notin {"ValueError", "InstallError"}

\* the arguments the caller gave: those of the list, or those the options
\* object already had
CallerArguments ==
    IF inp.options.kind \in {"list", "options"} THEN inp.options.items ELSE <<>>

UserAgentIsTruthy ==
    \/ inp.user_agent.kind = "UserAgent"
    \/ (inp.user_agent.kind = "str" /\ inp.user_agent.value # <<>>)

IsUserAgentArgument(argument) == argument # <<>> /\ argument[1] = "user-agent="

\* C17: create_driver adds a user-agent argument exactly when user_agent is
\* truthy: then the arguments of the options object are the caller's
\* followed by the one argument user-agent=<value>, the value being the str
\* itself or UserAgent.random; the object is the caller's own when an
\* options object was passed; with user_agent None or empty the arguments
\* are the caller's, unchanged.
C17_UserAgentArgument ==
    OptionsParsed =>
        LET items == out.r.options.items
            added == SelectSeq(out.r.events,
                               LAMBDA e : e[1] = "add_argument" /\ IsUserAgentArgument(e[2]))
        IN  /\ (UserAgentIsTruthy) =>
                  (/\ Len(added) = 1
                   /\ Len(items) = Len(CallerArguments) + 1
                   /\ SubSeq(items, 1, Len(CallerArguments)) = CallerArguments
                   /\ items[Len(items)] =
                         <<"user-agent=">> \o (IF inp.user_agent.kind = "str"
                                               THEN inp.user_agent.value
                                               ELSE <<"UA/random">>))
            /\ (~UserAgentIsTruthy) => (added = <<>> /\ items = CallerArguments)
            /\ (inp.options.kind = "options") => (out.r.options.id = inp.options.id)

C17_Witness ==
    /\ out.op = "create_driver"
    /\ out.outcome = "ok"
    /\ inp.browser = "undetected_chrome"
    /\ inp.options = OptionsObject("ChromeOptions", 1, <<<<"--no-sandbox">>>>)
    /\ inp.user_agent = UaObject
    /\ out.r.options = OptionsObject("ChromeOptions", 1,
                                     <<<<"--no-sandbox">>, <<"user-agent=", "UA/random">>>>)

=============================================================================
